---- MODULE Spec2Model ----
(***************************************************************************)
(* Model of wall/util.py: the asynchronous task Pool, the EventTarget      *)
(* dispatcher and the ObjectRedis object cache.  Each component has its    *)
(* own specification (SpecPool, SpecEvents, SpecCache) over its own        *)
(* variables; the other components' variables stay at their initial value. *)
(***************************************************************************)
EXTENDS Integers, Sequences, FiniteSets, TLC

VARIABLES
    constructed,    \* Pool: whether Pool.__init__ has run
    initTasks,      \* Pool: the collection __init__ was given (history)
    tasks,          \* Pool.tasks, a list
    called,         \* Pool: number of invocations of Pool.callback
    poolOp,         \* Pool: the last call and how it ended (history)
    listeners,      \* EventTarget._event_listeners of every target: type -> set
    added,          \* EventTarget: <<target, type, listener>> added and not
                    \* removed since (history, kept with plain set semantics)
    evtOp,          \* EventTarget: the last call and how it ended (history)
    disp,           \* EventTarget.dispatch_event: the event, the position of
                    \* the loop over the listeners and what it has invoked
    store,          \* Redis: the hash stored under every key, or NoHash
    caching,        \* ObjectRedis.caching
    cache,          \* ObjectRedis._cache: key -> object, weak in its values
    heap,           \* the objects decode has made, by identity, in order
    refs,           \* for every object, how many callers hold it
    sets            \* Redis: the members of the set stored under every set key

poolVars == <<constructed, initTasks, tasks, called, poolOp>>

evtVars == <<listeners, added, evtOp, disp>>

cacheVars == <<store, caching, cache, heap, refs>>

contVars == <<sets>>

vars == <<poolVars, evtVars, cacheVars, contVars>>

notPoolVars == <<evtVars, cacheVars, contVars>>

notEvtVars == <<poolVars, cacheVars, contVars>>

notCacheVars == <<poolVars, evtVars, contVars>>

Range(s) == {s[i] : i \in DOMAIN s}

SeqsUpTo(S, n) == UNION {[1..m -> S] : m \in 0..n}

(***************************************************************************)
(* Pool                                                                    *)
(***************************************************************************)

\* task handles handed to a Pool
Tasks == {"t1", "t2", "t3"}

\* longest initial task collection
MaxTasks == 3

\* Pool.done: `not self.tasks`
done(ts) == ts = <<>>

\* list.remove(x): drops the first item equal to x (the caller checks x is in)
ListRemove(ts, t) ==
    LET i == CHOOSE j \in DOMAIN ts : ts[j] = t /\ \A h \in 1..(j-1) : ts[h] # t
    IN  SubSeq(ts, 1, i-1) \o SubSeq(ts, i+1, Len(ts))

InitPool ==
    /\ constructed = FALSE
    /\ initTasks = <<>>
    /\ tasks = <<>>
    /\ called = 0
    /\ poolOp = [op |-> "none", task |-> "none", res |-> "none"]

\* Pool.__init__ without the done() test: the callback is left to finish
PoolNew_NoDoneCheck(ts) ==
    /\ ~constructed
    /\ constructed' = TRUE
    /\ initTasks' = ts
    /\ tasks' = ts
    /\ called' = called
    /\ poolOp' = [op |-> "new", task |-> "none", res |-> "ok"]
    /\ UNCHANGED notPoolVars

\* Pool.__init__(tasks, callback)
PoolNew(ts) ==
    /\ ~constructed
    /\ constructed' = TRUE
    /\ initTasks' = ts
    /\ tasks' = ts
    /\ called' = IF done(ts) THEN called + 1 ELSE called
    /\ poolOp' = [op |-> "new", task |-> "none", res |-> "ok"]
    /\ UNCHANGED notPoolVars

\* Pool.finish that calls back after every removal, without the done() test
finish_NoDoneCheck(t) ==
    /\ constructed
    /\ IF t \in Range(tasks)
       THEN /\ tasks' = ListRemove(tasks, t)
            /\ called' = called + 1
            /\ poolOp' = [op |-> "finish", task |-> t, res |-> "ok"]
       ELSE /\ poolOp' = [op |-> "finish", task |-> t, res |-> "ValueError"]
            /\ UNCHANGED <<tasks, called>>
    /\ UNCHANGED <<constructed, initTasks>>
    /\ UNCHANGED notPoolVars

\* Pool.finish that discards instead of removes: an untracked task is ignored
finish_Discard(t) ==
    /\ constructed
    /\ tasks' = IF t \in Range(tasks) THEN ListRemove(tasks, t) ELSE tasks
    /\ called' = IF done(tasks') THEN called + 1 ELSE called
    /\ poolOp' = [op |-> "finish", task |-> t, res |-> "ok"]
    /\ UNCHANGED <<constructed, initTasks>>
    /\ UNCHANGED notPoolVars

\* Pool.finish(task): list.remove raises ValueError when task is not in the
\* list, before anything is changed
finish(t) ==
    /\ constructed
    /\ IF t \in Range(tasks)
       THEN /\ tasks' = ListRemove(tasks, t)
            /\ called' = IF done(tasks') THEN called + 1 ELSE called
            /\ poolOp' = [op |-> "finish", task |-> t, res |-> "ok"]
       ELSE /\ poolOp' = [op |-> "finish", task |-> t, res |-> "ValueError"]
            /\ UNCHANGED <<tasks, called>>
    /\ UNCHANGED <<constructed, initTasks>>
    /\ UNCHANGED notPoolVars

NextPool ==
    \/ \E ts \in SeqsUpTo(Tasks, MaxTasks) : PoolNew(ts)
    \/ \E t \in Tasks : finish(t)

(***************************************************************************)
(* EventTarget                                                             *)
(***************************************************************************)

\* objects that compose EventTarget
Targets == {"ship1", "ship2"}

\* event types
Types == {"fired", "hit"}

\* number of distinct listener callables
NumListeners == 2

Listeners == 1..NumListeners

\* what a listener does when it is called with the event: return, raise, or
\* call back into the dispatching target for the event's type
Behaviours == {"return", "raise", "remove_self", "add"}

NoOne == 0

NoDispatch ==
    [active |-> FALSE, target |-> "none", type |-> "none", source |-> "none",
     size |-> 0, yielded |-> {}, invoked |-> [l \in Listeners |-> 0],
     regStart |-> {}, reentered |-> FALSE]

InitEvents ==
    /\ listeners = [o \in Targets |-> <<>>]
    /\ added = {}
    /\ evtOp = [op |-> "none", target |-> "none", type |-> "none",
                listener |-> NoOne, res |-> "none", dup |-> FALSE]
    /\ disp = NoDispatch

\* self._event_listeners.get(type, set())
DictGet(d, t) == IF t \in DOMAIN d THEN d[t] ELSE {}

\* the body of add_event_listener without the `if type not in` test: the
\* type's set is created anew on every call
AddListener_FreshSet(d, t, l) ==
    IF t \in DOMAIN d THEN [d EXCEPT ![t] = {l}] ELSE d @@ (t :> {l})

\* the body of add_event_listener on the dict d of one target
AddListener(d, t, l) ==
    LET d1 == IF t \in DOMAIN d THEN d ELSE d @@ (t :> {}) 
    IN  [d1 EXCEPT ![t] = @ \cup {l}]

\* whether set.remove(listener) raises KeyError
RemoveRaises_Never(d, t, l) == FALSE

\* whether set.remove(listener) raises KeyError
RemoveRaises(d, t, l) == l \notin DictGet(d, t)

\* the dict d of one target after a set.remove(listener) that does not raise
RemoveListener(d, t, l) ==
    IF t \in DOMAIN d THEN [d EXCEPT ![t] = @ \ {l}] ELSE d

\* dispatch_event looping over the listeners of every type
IterSet_AnyType(d, t) == UNION {d[u] : u \in DOMAIN d}

\* the set dispatch_event loops over
IterSet(d, t) == DictGet(d, t)

\* EventTarget.add_event_listener(type, listener), called from outside a
\* dispatch
add_event_listener(o, t, l) ==
    /\ ~disp.active
    /\ listeners' = [listeners EXCEPT ![o] = AddListener(@, t, l)]
    /\ added' = added \cup {<<o, t, l>>}
    /\ evtOp' = [op |-> "add", target |-> o, type |-> t, listener |-> l,
                 res |-> "ok", dup |-> <<o, t, l>> \in added]
    /\ disp' = NoDispatch
    /\ UNCHANGED notEvtVars

\* EventTarget.remove_event_listener(type, listener), called from outside a
\* dispatch: KeyError becomes ValueError('listener_unknown')
remove_event_listener(o, t, l) ==
    /\ ~disp.active
    /\ IF RemoveRaises(listeners[o], t, l)
       THEN /\ evtOp' = [op |-> "remove", target |-> o, type |-> t,
                         listener |-> l, res |-> "ValueError", dup |-> FALSE]
            /\ UNCHANGED listeners
       ELSE /\ evtOp' = [op |-> "remove", target |-> o, type |-> t,
                         listener |-> l, res |-> "ok", dup |-> FALSE]
            /\ listeners' = [listeners EXCEPT ![o] = RemoveListener(@, t, l)]
    /\ added' = added \ {<<o, t, l>>}
    /\ disp' = NoDispatch
    /\ UNCHANGED notEvtVars

\* EventTarget.dispatch_event(event) up to the loop: event.target is set and
\* the set iterator is created, which records the size of the set
dispatch_event(o, t) ==
    /\ ~disp.active
    /\ disp' = [active |-> TRUE, target |-> o, type |-> t, source |-> o,
                size |-> Cardinality(IterSet(listeners[o], t)),
                yielded |-> {}, invoked |-> [l \in Listeners |-> 0],
                regStart |-> {l \in Listeners : <<o, t, l>> \in added},
                reentered |-> FALSE]
    /\ evtOp' = [op |-> "dispatch", target |-> o, type |-> t,
                 listener |-> NoOne, res |-> "running", dup |-> FALSE]
    /\ UNCHANGED <<listeners, added>>
    /\ UNCHANGED notEvtVars

\* the call listener(event) in a try that drops what the listener raises
Invoke_CatchesErrors(l, b) ==
    LET o == disp.target
        t == disp.type
        d == [disp EXCEPT !.yielded = @ \cup {l}, !.invoked[l] = @ + 1]
    IN  \/ /\ b = "return"
           /\ disp' = d
           /\ UNCHANGED <<listeners, added, evtOp>>
        \/ /\ b = "raise"
           /\ disp' = d
           /\ evtOp' = [evtOp EXCEPT !.listener = l]
           /\ UNCHANGED <<listeners, added>>
        \/ /\ b = "remove_self"
           /\ ~RemoveRaises(listeners[o], t, l)
           /\ listeners' = [listeners EXCEPT ![o] = RemoveListener(@, t, l)]
           /\ added' = added \ {<<o, t, l>>}
           /\ disp' = [d EXCEPT !.reentered = TRUE]
           /\ UNCHANGED evtOp
        \/ /\ b = "add"
           /\ \E l2 \in Listeners :
                /\ listeners' = [listeners EXCEPT ![o] = AddListener(@, t, l2)]
                /\ added' = added \cup {<<o, t, l2>>}
           /\ disp' = [d EXCEPT !.reentered = TRUE]
           /\ UNCHANGED evtOp

\* the call listener(event) of the loop, the listener behaving as b; what a
\* listener raises leaves dispatch_event, which has no try
Invoke(l, b) ==
    LET o == disp.target
        t == disp.type
        d == [disp EXCEPT !.yielded = @ \cup {l}, !.invoked[l] = @ + 1]
    IN  \/ /\ b = "return"
           /\ disp' = d
           /\ UNCHANGED <<listeners, added, evtOp>>
        \/ /\ b = "raise"
           /\ disp' = [d EXCEPT !.active = FALSE]
           /\ evtOp' = [evtOp EXCEPT !.res = "ListenerError", !.listener = l]
           /\ UNCHANGED <<listeners, added>>
        \/ /\ b = "remove_self"
           /\ ~RemoveRaises(listeners[o], t, l)
           /\ listeners' = [listeners EXCEPT ![o] = RemoveListener(@, t, l)]
           /\ added' = added \ {<<o, t, l>>}
           /\ disp' = [d EXCEPT !.reentered = TRUE]
           /\ UNCHANGED evtOp
        \/ /\ b = "add"
           /\ \E l2 \in Listeners :
                /\ listeners' = [listeners EXCEPT ![o] = AddListener(@, t, l2)]
                /\ added' = added \cup {<<o, t, l2>>}
           /\ disp' = [d EXCEPT !.reentered = TRUE]
           /\ UNCHANGED evtOp

\* one turn of `for listener in ...: listener(event)`: the set iterator
\* raises RuntimeError when the set's size differs from the recorded one,
\* ends the loop when every item was yielded, and yields an item otherwise
DispatchNext ==
    /\ disp.active
    /\ LET cur == IterSet(listeners[disp.target], disp.type)
       IN  IF Cardinality(cur) # disp.size
           THEN /\ disp' = [disp EXCEPT !.active = FALSE]
                /\ evtOp' = [evtOp EXCEPT !.res = "RuntimeError"]
                /\ UNCHANGED <<listeners, added>>
           ELSE IF cur \ disp.yielded = {}
           THEN /\ disp' = [disp EXCEPT !.active = FALSE]
                /\ evtOp' = [evtOp EXCEPT !.res = "ok"]
                /\ UNCHANGED <<listeners, added>>
           ELSE \E l \in cur \ disp.yielded : \E b \in Behaviours : Invoke(l, b)
    /\ UNCHANGED notEvtVars

NextEvents ==
    \/ \E o \in Targets, t \in Types, l \in Listeners : add_event_listener(o, t, l)
    \/ \E o \in Targets, t \in Types, l \in Listeners : remove_event_listener(o, t, l)
    \/ \E o \in Targets, t \in Types : dispatch_event(o, t)
    \/ DispatchNext

(***************************************************************************)
(* ObjectRedis                                                             *)
(***************************************************************************)

\* keys of the Redis database
Keys == {"ship:0", "ship:1"}

\* a hash that the caller's decode turns into an object that evaluates as
\* false (an instance of a class with __len__ or __nonzero__)
FalsyHash == "void"

\* the hashes written to the database
Hashes == {"starfury", FalsyHash}

\* hgetall's answer for a key that has no hash: the empty dict
NoHash == "nohash"

\* keys of the Redis database that hold a set of keys
SetKeys == {"ships", "fleet"}

\* Python's None; object identities are 1, 2, ...
None == 0

\* most objects decoded over a run
MaxObjects == 2

\* most callers holding one object at a time
MaxHolders == 2

\* longest key list given to omget
MaxKeyList == 2

\* where hgetall or decode may raise
Failures == {"none", "hgetall", "decode"}

\* the caller's decode function: the object made from a hash
decode(h) == [hash |-> h]

\* how Python evaluates an object in a condition
Truth(object) == object.hash # FalsyHash

InitCache ==
    /\ store = [k \in Keys |-> NoHash]
    /\ caching = TRUE
    /\ cache = <<>>
    /\ heap = <<>>
    /\ refs = [o \in 1..MaxObjects |-> 0]

\* the local state of a call of oget or omget
Start ==
    [cache |-> cache, heap |-> heap, res |-> None, out |-> <<>>,
     err |-> "none", fetches |-> 0, decodes |-> 0]

\* d[k] = v on a dict
DictPut(d, k, v) == [x \in DOMAIN d \cup {k} |-> IF x = k THEN v ELSE d[x]]

\* `self._cache.get(key)` whatever self.caching is
CacheLookup_Always(ch, k) == IF k \in DOMAIN ch THEN ch[k] ELSE None

\* `self._cache.get(key) if self.caching else None`
CacheLookup(ch, k) == IF caching /\ k \in DOMAIN ch THEN ch[k] ELSE None

\* `not object`: None, or an object that evaluates as false
Not(hp, object) == object = None \/ ~Truth(hp[object])

\* `if self.caching: self._cache[key] = object`
Register(ch, k, object) == IF caching THEN DictPut(ch, k, object) ELSE ch

\* ObjectRedis.oget that catches what hgetall or decode raises and returns
\* None
oget_SwallowsErrors(c, k, f) ==
    LET object == CacheLookup(c.cache, k)
    IN  IF ~Not(c.heap, object)
        THEN [c EXCEPT !.res = object]
        ELSE LET c1 == [c EXCEPT !.fetches = @ + 1]
                 hash == store[k]
             IN  IF f = "hgetall"
                 THEN [c1 EXCEPT !.res = None]
                 ELSE IF hash = NoHash
                 THEN [c1 EXCEPT !.res = object]
                 ELSE LET c2 == [c1 EXCEPT !.decodes = @ + 1]
                          new == Len(c.heap) + 1
                          made == decode(hash) @@ [key |-> k, cached |-> caching]
                      IN  IF f = "decode"
                          THEN [c2 EXCEPT !.res = None]
                          ELSE [c2 EXCEPT !.heap = Append(@, made),
                                          !.cache = Register(@, k, new),
                                          !.res = new]

\* ObjectRedis.oget(key) on the local state c, hgetall or decode raising as f
\* says
oget(c, k, f) ==
    LET object == CacheLookup(c.cache, k)
    IN  IF ~Not(c.heap, object)
        THEN [c EXCEPT !.res = object]
        ELSE LET c1 == [c EXCEPT !.fetches = @ + 1]
                 hash == store[k]
             IN  IF f = "hgetall"
                 THEN [c1 EXCEPT !.res = None, !.err = "StoreError"]
                 ELSE IF hash = NoHash
                 THEN [c1 EXCEPT !.res = object]
                 ELSE LET c2 == [c1 EXCEPT !.decodes = @ + 1]
                          new == Len(c.heap) + 1
                          made == decode(hash) @@ [key |-> k, cached |-> caching]
                      IN  IF f = "decode"
                          THEN [c2 EXCEPT !.res = None, !.err = "DecodeError"]
                          ELSE [c2 EXCEPT !.heap = Append(@, made),
                                          !.cache = Register(@, k, new),
                                          !.res = new]

RECURSIVE omgetFrom(_, _, _, _)
\* the list comprehension of omget from item i on; item `at` fails as f says
omgetFrom(c, ks, i, fl) ==
    IF i > Len(ks)
    THEN c
    ELSE LET r == oget(c, ks[i], IF fl.at = i THEN fl.f ELSE "none")
         IN  IF r.err # "none"
             THEN r
             ELSE omgetFrom([r EXCEPT !.out = Append(@, r.res)], ks, i + 1, fl)

\* omget that leaves out the keys that have no object
omget_SkipAbsent(c, ks, fl) ==
    LET r == omgetFrom(c, ks, 1, fl)
    IN  [r EXCEPT !.out = SelectSeq(@, LAMBDA x : x # None)]

\* ObjectRedis.omget(keys)
omget(c, ks, fl) == omgetFrom(c, ks, 1, fl)

\* a dict that keeps its values alive: no entry ever goes
WeakValues_Strong(ch, rf) == ch

\* WeakValueDictionary: the entries whose object is still held by someone
WeakValues(ch, rf) ==
    [k \in {x \in DOMAIN ch : rf[ch[x]] > 0} |-> ch[k]]

\* the objects nobody holds are destroyed by the interpreter: what is left
\* of one is its identity, which no later object gets
Destroy(hp, rf) ==
    [o \in DOMAIN hp |->
        IF rf[o] = 0 THEN [hp[o] EXCEPT !.hash = "gone"] ELSE hp[o]]

\* the holders of object o
Refs(o) == IF o \in DOMAIN refs THEN refs[o] ELSE 0

\* the state at the end of a call of oget or omget that returns the objects
\* `got`: the caller holds what was returned, what a failed call had made is
\* destroyed, and the weak dictionary loses the entries of destroyed objects
Returned(r, got) ==
    LET rf == [o \in (1..MaxObjects) \cup DOMAIN r.heap |->
                 IF r.err = "none" /\ o \in got THEN Refs(o) + 1 ELSE Refs(o)]
    IN  [refs |-> rf, cache |-> WeakValues(r.cache, rf),
         heap |-> Destroy(r.heap, rf)]

\* the state after a caller has dropped a reference to object o
Released(o) ==
    LET rf == [refs EXCEPT ![o] = @ - 1]
    IN  [refs |-> rf, cache |-> WeakValues(cache, rf), heap |-> Destroy(heap, rf)]

\* the end of a call, within the bounds of the model
Return(r, got) ==
    /\ Len(r.heap) <= MaxObjects
    /\ \E a \in {Returned(r, got)} :
         /\ \A o \in 1..MaxObjects : a.refs[o] <= MaxHolders
         /\ refs' = a.refs
         /\ cache' = a.cache
         /\ heap' = a.heap

\* a caller calls oget(key) and keeps the result
Oget(k, f) ==
    /\ \E r \in {oget(Start, k, f)} : Return(r, {r.res} \ {None})
    /\ UNCHANGED <<store, caching>>
    /\ UNCHANGED notCacheVars

\* a caller calls omget(keys) and keeps the list
Omget(ks, fl) ==
    /\ \E r \in {omget(Start, ks, fl)} : Return(r, Range(r.out) \ {None})
    /\ UNCHANGED <<store, caching>>
    /\ UNCHANGED notCacheVars

\* a caller drops a reference to object o
Release(o) ==
    /\ refs[o] > 0
    /\ \E a \in {Released(o)} :
         /\ refs' = a.refs
         /\ cache' = a.cache
         /\ heap' = a.heap
    /\ UNCHANGED <<store, caching>>
    /\ UNCHANGED notCacheVars

\* the `caching` switch is set
SetCaching(b) ==
    /\ caching' = b
    /\ UNCHANGED <<store, cache, heap, refs>>
    /\ UNCHANGED notCacheVars

\* hmset(key, hash) through the underlying client
hmset(k, h) ==
    /\ store' = [store EXCEPT ![k] = h]
    /\ UNCHANGED <<caching, cache, heap, refs>>
    /\ UNCHANGED notCacheVars

\* flushdb() through the underlying client: every key of the database goes,
\* the set keys included
flushdb ==
    /\ store' = [k \in Keys |-> NoHash]
    /\ sets' = [s \in SetKeys |-> {}]
    /\ UNCHANGED <<caching, cache, heap, refs>>
    /\ UNCHANGED <<poolVars, evtVars>>

NoFailure == [at |-> 0, f |-> "none"]

\* where a call of omget(ks) may fail: nowhere, or at its last key, in
\* hgetall or in decode (a call that fails at an earlier key does what the
\* call with the keys up to that one does, the later keys being never used)
FailurePoints(ks) ==
    {NoFailure} \cup [at : {Len(ks)} \ {0}, f : Failures \ {"none"}]

NextCache ==
    \/ \E k \in Keys, f \in Failures : Oget(k, f)
    \/ \E ks \in SeqsUpTo(Keys, MaxKeyList) :
         \E fl \in FailurePoints(ks) : Omget(ks, fl)
    \/ \E o \in 1..MaxObjects : Release(o)
    \/ \E b \in BOOLEAN : SetCaching(b)
    \/ \E k \in Keys, h \in Hashes : hmset(k, h)
    \/ flushdb

(***************************************************************************)
(* RedisContainer                                                          *)
(***************************************************************************)

\* a RedisContainer holds the client and its set key, and nothing of the set
InitContainer == sets = [s \in SetKeys |-> {}]

\* the Redis commands the container sends
smembers(s) == sets[s]

scard(s) == Cardinality(sets[s])

sismember(s, k) == k \in sets[s]

\* RedisContainer.keys(), which __iter__ iterates: the members as a list, in
\* the order the set gives them, which is any; the lists it may return
keys(s) ==
    {q \in [1..Cardinality(smembers(s)) -> smembers(s)] : Range(q) = smembers(s)}

\* RedisContainer.__len__
len(s) == scard(s)

\* RedisContainer.__contains__ that asks for the hash instead of the set
contains_HasHash(s, k) == store[k] # NoHash

\* RedisContainer.__contains__
contains(s, k) == sismember(s, k)

\* RedisContainer.__getitem__ without the membership test
getitem_NoMembershipTest(c, s, k, f) == oget(c, k, f)

\* RedisContainer.__getitem__ that takes None from oget for a missing key
getitem_NoneIsKeyError(c, s, k, f) ==
    IF ~contains(s, k)
    THEN [c EXCEPT !.err = "KeyError"]
    ELSE LET r == oget(c, k, f)
         IN  IF r.err = "none" /\ r.res = None
             THEN [r EXCEPT !.err = "KeyError"]
             ELSE r

\* RedisContainer.__getitem__(key) of the container of set s on the local
\* state c of the call, hgetall or decode raising as f says
getitem(c, s, k, f) ==
    IF ~contains(s, k)
    THEN [c EXCEPT !.err = "KeyError"]
    ELSE oget(c, k, f)

\* sadd(set_key, key) through the underlying client
sadd(s, k) ==
    /\ sets' = [sets EXCEPT ![s] = @ \cup {k}]
    /\ UNCHANGED <<poolVars, evtVars, cacheVars>>

\* srem(set_key, key) through the underlying client
srem(s, k) ==
    /\ sets' = [sets EXCEPT ![s] = @ \ {k}]
    /\ UNCHANGED <<poolVars, evtVars, cacheVars>>

\* a caller lists or iterates the keys of the container of set s: the call
\* returns one of keys(s) and changes nothing
Keys_(s) ==
    /\ keys(s) # {}
    /\ UNCHANGED vars

\* a caller asks for len(container): the call returns len(s) and changes
\* nothing
Len_(s) ==
    /\ len(s) \in Nat
    /\ UNCHANGED vars

\* a caller asks for `key in container`: the call returns contains(s, k) and
\* changes nothing
Contains(s, k) ==
    /\ contains(s, k) \in BOOLEAN
    /\ UNCHANGED vars

\* a caller asks for container[key] and keeps the result
Getitem(s, k, f) ==
    /\ \E r \in {getitem(Start, s, k, f)} : Return(r, {r.res} \ {None})
    /\ UNCHANGED <<store, caching, sets>>
    /\ UNCHANGED <<poolVars, evtVars>>

NextContainer ==
    \/ \E s \in SetKeys, k \in Keys : sadd(s, k)
    \/ \E s \in SetKeys, k \in Keys : srem(s, k)
    \/ \E s \in SetKeys : Keys_(s)
    \/ \E s \in SetKeys : Len_(s)
    \/ \E s \in SetKeys, k \in Keys : Contains(s, k)
    \/ \E s \in SetKeys, k \in Keys, f \in Failures : Getitem(s, k, f)
    \/ \E k \in Keys, h \in Hashes : hmset(k, h)
    \/ \E o \in 1..MaxObjects : Release(o)
    \/ flushdb

(***************************************************************************)
(* Specifications                                                          *)
(***************************************************************************)

Init == InitPool /\ InitEvents /\ InitCache /\ InitContainer

SpecPool == Init /\ [][NextPool]_vars

SpecEvents == Init /\ [][NextEvents]_vars

SpecCache == Init /\ [][NextCache]_vars

SpecContainer == Init /\ [][NextContainer]_vars

(***************************************************************************)
(* ObjectRedis: claims                                                     *)
(***************************************************************************)

\* the objects somebody holds
Live == {o \in DOMAIN heap : refs[o] > 0}

\* the local state of a call made after the call that ended in a
After(a) == [Start EXCEPT !.cache = a.cache, !.heap = a.heap]

\* C1: with caching enabled, oget(K) returns the very object that an earlier
\* oget(K) made with caching enabled returned and that is still held.
C1_SameKeySameObject ==
    caching =>
        \A k \in Keys : \A o \in Live :
            (heap[o].key = k /\ heap[o].cached)
            => oget(Start, k, "none").res = o

\* C1 for the objects that evaluate as true: what the code does guarantee
C1_SameKeySameObjectIfTrue ==
    caching =>
        \A k \in Keys : \A o \in Live :
            (heap[o].key = k /\ heap[o].cached /\ Truth(heap[o]))
            => /\ oget(Start, k, "none").res = o
               /\ oget(Start, k, "none").fetches = 0

\* C8: while caching is disabled, oget(K) calls hgetall once, calls decode
\* once for a key that has a hash, leaves the cache as it is, and returns
\* for such a key an object of a new identity, so that two calls return two
\* distinct objects, whether or not a live object is cached for K.
C8_CachingDisabledBypassesCache ==
    ~caching =>
        \A k \in Keys, f \in Failures :
            \A r \in {oget(Start, k, f)} :
            \A a \in {Returned(r, {r.res} \ {None})} :
            \A r2 \in {oget(After(a), k, "none")} :
                /\ r.fetches = 1
                /\ (store[k] # NoHash /\ f # "hgetall") => r.decodes = 1
                /\ r.cache = cache
                /\ a.cache = cache
                /\ (store[k] # NoHash /\ f = "none") =>
                     /\ r.res # None
                     /\ r.res \notin DOMAIN heap
                     /\ a.heap[r.res].hash = store[k]
                     /\ a.refs[r.res] = 1
                     /\ r2.res \notin {None, r.res} \cup DOMAIN heap
                     /\ r2.cache = cache

\* C8: caching is disabled, a live object that evaluates as true is cached
\* for a key, and a caller holds another object for that key, which an oget
\* made with caching disabled returned
C8_Witness ==
    /\ ~caching
    /\ \E k \in DOMAIN cache : \E o \in Live :
         /\ cache[k] \in Live /\ Truth(heap[cache[k]])
         /\ o # cache[k]
         /\ heap[o].key = k /\ ~heap[o].cached
         /\ store[k] # NoHash

\* C9: every cached object is held by a caller; when the last holder of the
\* object cached for K releases it, K has no entry any more; and an oget(K)
\* with caching enabled for a key without entry calls hgetall once and, the
\* key having a hash, calls decode once and returns and registers an object
\* of an identity no object had before.
C9_WeakRetention ==
    /\ \A k \in DOMAIN cache : cache[k] \in Live
    /\ \A o \in Live : \A k \in DOMAIN cache :
         (cache[k] = o /\ refs[o] = 1) => k \notin DOMAIN Released(o).cache
    /\ caching =>
         \A k \in Keys \ DOMAIN cache :
             \A r \in {oget(Start, k, "none")} :
             \A a \in {Returned(r, {r.res} \ {None})} :
                 /\ r.fetches = 1
                 /\ store[k] # NoHash =>
                      /\ r.decodes = 1
                      /\ r.res # None
                      /\ r.res \notin DOMAIN heap
                      /\ k \in DOMAIN a.cache
                      /\ a.cache[k] = r.res
                      /\ a.heap[r.res].hash = store[k]

\* C9: an object that was cached for a key has been destroyed, and a later
\* oget of that key has registered another object, which is held
C9_Witness ==
    /\ caching
    /\ \E k \in DOMAIN cache : \E o \in DOMAIN heap :
         /\ refs[o] = 0 /\ heap[o].key = k /\ heap[o].cached
         /\ o < cache[k]
         /\ cache[k] \in Live /\ Truth(heap[cache[k]])

Reaches(c, k, f) ==
    /\ Not(c.heap, CacheLookup(c.cache, k))
    /\ f = "hgetall" \/ (f = "decode" /\ store[k] # NoHash)

\* what the caller sees of a failure f
Raised(f) == IF f = "hgetall" THEN "StoreError" ELSE "DecodeError"

\* C15: an oget(K) in which hgetall or decode raises ends with that error
\* and without result, and leaves the cache, the objects and their holders
\* as they were, so that the next oget(K) calls hgetall again, and decode
\* for a key that has a hash; an omget in which an oget raises ends with
\* that error, the caller getting no list: the failing oget leaves the cache
\* as the ogets before it left it, nobody holds an object more than before,
\* and every entry the cache has after the call it had before the call.
C15_FailuresPropagate ==
    /\ \A k \in Keys, f \in Failures \ {"none"} :
         \A r \in {oget(Start, k, f)} :
         \A a \in {Returned(r, {r.res} \ {None})} :
         \A r2 \in {oget(After(a), k, "none")} :
             /\ r.err # "none" <=> Reaches(Start, k, f)
             /\ r.err # "none" =>
                  /\ r.err = Raised(f) /\ r.res = None
                  /\ r.cache = cache /\ r.heap = heap
                  /\ a.cache = cache /\ a.heap = heap /\ a.refs = refs
                  /\ r2.fetches = 1
                  /\ store[k] # NoHash => (r2.decodes = 1 /\ r2.res \notin DOMAIN heap)
    /\ \A ks \in SeqsUpTo(Keys, MaxKeyList) :
         \A fl \in FailurePoints(ks) \ {NoFailure} :
             \A r \in {omget(Start, ks, fl)} :
             \A before \in {omget(Start, SubSeq(ks, 1, fl.at - 1), NoFailure)} :
             \A a \in {Returned(r, Range(r.out) \ {None})} :
                 /\ r.err # "none" <=> Reaches(before, ks[fl.at], fl.f)
                 /\ r.err # "none" =>
                      /\ r.err = Raised(fl.f)
                      /\ r.cache = before.cache /\ r.heap = before.heap
                      /\ r.out = before.out
                      /\ \A o \in DOMAIN a.refs : a.refs[o] = Refs(o)
                      /\ \A k \in DOMAIN a.cache :
                           k \in DOMAIN cache /\ a.cache[k] = cache[k]

\* C15: caching is enabled, a key has a hash and no cached object, the other
\* key has a live cached object: an oget of the first key fails, and an
\* omget of the other key and then the first fails after the oget of the
\* other key has returned its object
C15_Witness ==
    /\ caching
    /\ \E k, j \in Keys :
         /\ store[k] # NoHash /\ k \notin DOMAIN cache
         /\ j \in DOMAIN cache /\ cache[j] \in Live /\ Truth(heap[cache[j]])
         /\ oget(Start, k, "decode").err = "DecodeError"
         /\ oget(Start, k, "hgetall").err = "StoreError"
         /\ omget(Start, <<j, k>>, [at |-> 2, f |-> "decode"]).err = "DecodeError"
         /\ omget(Start, <<j, k>>, [at |-> 2, f |-> "decode"]).out = <<cache[j]>>

\* C17: with caching enabled, oget(K) for a key with a live cached object
\* returns that object, whatever decode made it from, without calling
\* hgetall or decode and without changing the cache.
C17_CachedObjectIsOpaque ==
    caching =>
        \A k \in DOMAIN cache :
            cache[k] \in Live =>
                LET r == oget(Start, k, "none")
                IN  /\ r.res = cache[k]
                    /\ r.fetches = 0 /\ r.decodes = 0
                    /\ r.cache = cache /\ r.heap = heap

\* C20: with caching enabled, while an object that oget(K) returned and
\* registered is held, oget(K) returns it without calling hgetall, whatever
\* the store holds for K by now; oget(K) returns None for a key without
\* hash only when no object is cached for K, and a call that returns None
\* leaves the cache as it was.
C20_StoreNeverInvalidates ==
    caching =>
        \A k \in Keys :
            LET r == oget(Start, k, "none")
            IN  /\ \A o \in Live :
                     (heap[o].key = k /\ heap[o].cached)
                     => (r.res = o /\ r.fetches = 0)
                /\ r.res = None => (k \notin DOMAIN cache /\ store[k] = NoHash)
                /\ r.res = None => r.cache = cache
                /\ (store[k] = NoHash /\ k \notin DOMAIN cache) => r.res = None

\* C20 for the objects that evaluate as true: what the code does guarantee
C20_StoreNeverInvalidatesIfTrue ==
    caching =>
        \A k \in Keys :
            LET r == oget(Start, k, "none")
            IN  /\ \A o \in Live :
                     (heap[o].key = k /\ heap[o].cached /\ Truth(heap[o]))
                     => (r.res = o /\ r.fetches = 0)
                /\ r.res = None => (k \notin DOMAIN cache /\ store[k] = NoHash)
                /\ r.res = None => r.cache = cache
                /\ (store[k] = NoHash /\ k \notin DOMAIN cache) => r.res = None

\* C20 for the objects that evaluate as true: a held cached object was made
\* from a hash that the store has no more, and another from a hash that was
\* overwritten
C20_WitnessIfTrue ==
    /\ caching
    /\ \E k, j \in DOMAIN cache :
         /\ cache[k] \in Live /\ Truth(heap[cache[k]]) /\ store[k] = NoHash
         /\ cache[j] \in Live /\ Truth(heap[cache[j]])
         /\ store[j] \notin {NoHash, heap[cache[j]].hash}

(***************************************************************************)
(* RedisContainer: claims                                                  *)
(***************************************************************************)

\* C11: in every state of the database, for the container of every set:
\* `key in container` is true exactly for the members of the set, keys()
\* returns a list of exactly the members, each once, and len(container) is
\* the number of members, which is the length of that list.
C11_ContainerAgreesWithSet ==
    \A s \in SetKeys :
        /\ \A k \in Keys : contains(s, k) <=> k \in sets[s]
        /\ keys(s) # {}
        /\ \A q \in keys(s) :
             /\ Range(q) = sets[s]
             /\ \A i, j \in DOMAIN q : q[i] = q[j] => i = j
             /\ Len(q) = len(s)
        /\ len(s) = Cardinality(sets[s])

\* C11: two sets differ, one has a member that has no hash, and the other
\* lacks a key that has a hash
C11_Witness ==
    \E s, u \in SetKeys : \E k, j \in Keys :
        /\ sets[s] = {k} /\ sets[u] = Keys
        /\ store[k] = NoHash
        /\ j \notin sets[s] /\ store[j] # NoHash
        /\ contains(s, k) /\ ~contains(s, j)
        /\ len(s) = 1 /\ len(u) = 2

\* C12: container[K] for a key K that is not a member of the container's
\* set raises KeyError, and the call has not called hgetall or decode and
\* leaves the cache, the objects and their holders as they were, also when
\* the store or decode would fail.
C12_NonMemberLeavesCacheUntouched ==
    \A s \in SetKeys, k \in Keys, f \in Failures :
        k \notin sets[s] =>
            LET r == getitem(Start, s, k, f)
                a == Returned(r, {r.res} \ {None})
            IN  /\ r.err = "KeyError"
                /\ r.fetches = 0 /\ r.decodes = 0
                /\ r.cache = cache /\ r.heap = heap
                /\ a.cache = cache /\ a.heap = heap /\ a.refs = refs

\* C12: a key that has a hash and a live cached object is not a member of a
\* set, whose container raises KeyError for it
C12_Witness ==
    \E s \in SetKeys, k \in Keys :
        /\ k \notin sets[s]
        /\ store[k] # NoHash
        /\ k \in DOMAIN cache /\ cache[k] \in Live
        /\ getitem(Start, s, k, "none").err = "KeyError"

C14_ContainersShareObjects ==
    caching =>
        \A k \in Keys : \A o \in Live :
            (heap[o].key = k /\ heap[o].cached) =>
                \A s \in SetKeys :
                    k \in sets[s] => getitem(Start, s, k, "none").res = o

\* C14 for the objects that evaluate as true: what the code does guarantee
C14_ContainersShareObjectsIfTrue ==
    caching =>
        \A k \in Keys : \A o \in Live :
            (heap[o].key = k /\ heap[o].cached /\ Truth(heap[o])) =>
                \A s \in SetKeys :
                    k \in sets[s] =>
                        /\ getitem(Start, s, k, "none").res = o
                        /\ oget(Start, k, "none").res = o

\* C14 for the objects that evaluate as true: a held object is cached for a
\* key that is a member of both sets, which differ
C14_WitnessIfTrue ==
    /\ caching
    /\ \E k \in DOMAIN cache :
         /\ cache[k] \in Live /\ Truth(heap[cache[k]])
         /\ \A s \in SetKeys : k \in sets[s]
         /\ \E s, u \in SetKeys : sets[s] # sets[u]

(***************************************************************************)
(* EventTarget: claims                                                     *)
(***************************************************************************)

\* C5: dispatch_event sets the event's target to the dispatching object and
\* calls only listeners added for the event's type on that object and not
\* removed since, each at most once; a dispatch that returns normally and
\* whose listeners did not call back into the target has called every one
\* of them exactly once; with none registered it returns normally having
\* called nothing.
C5_DispatchInvokesRegistered ==
    evtOp.op = "dispatch" =>
        /\ disp.source = evtOp.target
        /\ \A l \in Listeners :
             /\ disp.invoked[l] <= 1
             /\ disp.invoked[l] = 1 => l \in disp.regStart
        /\ (evtOp.res = "ok" /\ ~disp.reentered) =>
             \A l \in disp.regStart : disp.invoked[l] = 1
        /\ (~disp.active /\ disp.regStart = {}) =>
             /\ evtOp.res = "ok"
             /\ \A l \in Listeners : disp.invoked[l] = 0

\* C5: a dispatch returned after calling a listener, while another listener
\* was registered for the other type only and one on the other object only
C5_Witness ==
    /\ evtOp.op = "dispatch" /\ evtOp.res = "ok" /\ ~disp.reentered
    /\ disp.regStart # {} /\ disp.regStart # Listeners
    /\ \A l \in disp.regStart : disp.invoked[l] = 1
    /\ \E u \in Types \ {evtOp.type} :
         DictGet(listeners[evtOp.target], u) \ disp.regStart # {}
    /\ \E o \in Targets \ {evtOp.target} :
         DictGet(listeners[o], evtOp.type) \ disp.regStart # {}
    /\ evtOp.type \in DOMAIN listeners[evtOp.target]

\* C5: a dispatch with no listener registered for the type returned
C5_WitnessNoListener ==
    /\ evtOp.op = "dispatch" /\ evtOp.res = "ok"
    /\ disp.regStart = {}
    /\ \E u \in Types : DictGet(listeners[evtOp.target], u) # {}

\* the listeners registered for the event of the last dispatch, as the
\* dicts have them
Registered(ls, op) == DictGet(ls[op.target], op.type)

\* C16: when a listener raises in a dispatch, the dispatch ends there with
\* the listener's error and the registrations as they were, which are those
\* of the start of the dispatch; the listeners the loop had not reached are
\* not called, then or later; the dispatch that follows starts over with
\* every listener registered for its event, and any dispatch that returns
\* normally without listeners calling back has called every one of them once.
C16_ListenerErrorPropagates ==
    [][/\ (evtOp'.op = "dispatch" /\ evtOp'.listener # NoOne
            /\ evtOp'.listener # evtOp.listener)
          => /\ evtOp'.res = "ListenerError"
             /\ ~disp'.active
             /\ listeners' = listeners
             /\ Registered(listeners', evtOp') = disp'.regStart
             /\ \A l \in Listeners :
                  disp'.invoked[l] =
                      IF l = evtOp'.listener THEN 1 ELSE disp.invoked[l]
             /\ \A l \in disp'.regStart \ disp'.yielded : disp'.invoked[l] = 0
       /\ (evtOp.op = "dispatch" /\ evtOp.res = "ListenerError")
          => /\ \A l \in Listeners : disp'.invoked[l] <= disp.invoked[l]
             /\ evtOp'.op = "dispatch"
                => /\ evtOp'.res = "running"
                   /\ disp'.active
                   /\ disp'.yielded = {}
                   /\ disp'.regStart = Registered(listeners', evtOp')
                   /\ disp'.size = Cardinality(disp'.regStart)
       /\ (evtOp'.op = "dispatch" /\ evtOp'.res = "ok" /\ ~disp'.reentered)
          => \A l \in Registered(listeners', evtOp') : disp'.invoked[l] = 1]_vars

\* C16: a dispatch ended with the error of a listener, which was called,
\* while another listener registered for the event was not
C16_Witness ==
    /\ evtOp.op = "dispatch" /\ evtOp.res = "ListenerError"
    /\ evtOp.listener \in disp.regStart
    /\ disp.invoked[evtOp.listener] = 1
    /\ \E l \in Registered(listeners, evtOp) : disp.invoked[l] = 0

\* C19: a dispatch never ends with an error of its own, also when a
\* listener it calls adds a listener to, or removes itself from, the
\* dispatching object for the event's type; and a dispatch that returns
\* normally has called every listener that was registered at its start and
\* is still registered.
C19_ReentrantDispatchCompletes ==
    evtOp.op = "dispatch" =>
        /\ evtOp.res # "RuntimeError"
        /\ evtOp.res = "ok" =>
             \A l \in disp.regStart \cap Registered(listeners, evtOp) :
                 disp.invoked[l] = 1

\* C19 for the dispatches whose listeners left the size of the set as it
\* was: what the code does guarantee
C19_DispatchCompletesIfSameSize ==
    (evtOp.op = "dispatch" /\ evtOp.res = "RuntimeError") =>
        /\ disp.reentered
        /\ Cardinality(Registered(listeners, evtOp)) # disp.size

\* C6: remove_event_listener(type, listener) with a listener that is not
\* registered for the type on that object fails with ValueError and leaves
\* the listeners of every object and type as they were.
C6_RemoveUnknownFails ==
    [][\A o \in Targets, t \in Types, l \in Listeners :
         (/\ <<o, t, l>> \notin added
          /\ evtOp'.op = "remove" /\ evtOp'.target = o
          /\ evtOp'.type = t /\ evtOp'.listener = l)
         => /\ evtOp'.res = "ValueError"
            /\ listeners' = listeners]_vars

\* C6: a remove failed for a listener that is registered for the other type
\* only, on an object whose dict has no entry for the type
C6_Witness ==
    /\ evtOp.op = "remove" /\ evtOp.res = "ValueError"
    /\ evtOp.type \notin DOMAIN listeners[evtOp.target]
    /\ \E u \in Types : evtOp.listener \in DictGet(listeners[evtOp.target], u)

\* C6: a remove failed for a listener that had been removed before
C6_WitnessRemovedTwice ==
    /\ evtOp.op = "remove" /\ evtOp.res = "ValueError"
    /\ evtOp.type \in DOMAIN listeners[evtOp.target]

\* C7: add_event_listener of a listener already registered for the type
\* changes no registration; a dispatch that returns normally has called a
\* registered listener once, however often it was added; one successful
\* remove_event_listener leaves the listener unregistered, so that the next
\* remove of it fails.
C7_AddIdempotent ==
    [][\A o \in Targets, t \in Types, l \in Listeners :
         /\ (/\ <<o, t, l>> \in added
             /\ evtOp'.op = "add" /\ evtOp'.target = o
             /\ evtOp'.type = t /\ evtOp'.listener = l)
            => /\ listeners' = listeners
               /\ evtOp'.res = "ok"
         /\ (/\ evtOp'.op = "remove" /\ evtOp'.res = "ok" /\ evtOp'.target = o
             /\ evtOp'.type = t /\ evtOp'.listener = l)
            => /\ l \notin DictGet(listeners'[o], t)
               /\ RemoveRaises(listeners'[o], t, l)
         /\ (/\ evtOp'.op = "dispatch" /\ evtOp'.res = "ok" /\ ~disp'.reentered
             /\ evtOp'.target = o /\ evtOp'.type = t /\ <<o, t, l>> \in added)
            => disp'.invoked[l] = 1]_vars

\* C7: a listener was added a second time for a type another listener is
\* registered for, too
C7_Witness ==
    /\ evtOp.op = "add" /\ evtOp.dup /\ evtOp.res = "ok"
    /\ Cardinality(DictGet(listeners[evtOp.target], evtOp.type)) >= 2

(***************************************************************************)
(* Pool: claims                                                            *)
(***************************************************************************)

\* C2: the callback is never invoked while a task is tracked, and has been
\* invoked exactly once whenever the tracked collection is empty; so it is
\* invoked at most once, whatever the initial collection and finish order.
C2_CallbackOnceWhenEmpty ==
    constructed =>
        /\ called <= 1
        /\ (tasks # <<>> => called = 0)
        /\ (tasks = <<>> => called = 1)

\* C2: a pool built with two or more tasks has been emptied by finish calls
C2_Witness ==
    /\ constructed
    /\ Len(initTasks) >= 2
    /\ tasks = <<>>
    /\ poolOp.op = "finish" /\ poolOp.res = "ok"
    /\ called = 1

\* C3: a Pool constructed with an empty collection has invoked the callback
\* exactly once when the constructor returns, and every later finish fails
\* (ValueError), the callback count staying at one.
C3_EmptyPoolFiresInConstructor ==
    (constructed /\ initTasks = <<>>) =>
        /\ called = 1
        /\ tasks = <<>>
        /\ (poolOp.op = "finish" => poolOp.res = "ValueError")

\* C3: finish was called on a pool that was constructed empty
C3_Witness ==
    /\ constructed
    /\ initTasks = <<>>
    /\ poolOp.op = "finish"
    /\ called = 1

\* C18: the Pool tracks a set of handles: after a finish(t) that succeeds,
\* t is not tracked any more, and the callback has run exactly when as many
\* finish calls have succeeded as the initial collection has distinct
\* handles.
C18_TracksSetOfHandles ==
    constructed =>
        /\ (poolOp.op = "finish" /\ poolOp.res = "ok")
           => poolOp.task \notin Range(tasks)
        /\ called = 1
           <=> Len(initTasks) - Len(tasks) = Cardinality(Range(initTasks))

\* C18 for the list the code keeps: finish(t) removes one occurrence of t,
\* and the callback has run exactly when as many finish calls have succeeded
\* as the initial collection has items
C18_TracksListOfHandles ==
    constructed =>
        /\ \A t \in Tasks :
             Cardinality({i \in DOMAIN tasks : tasks[i] = t})
                 <= Cardinality({i \in DOMAIN initTasks : initTasks[i] = t})
        /\ called = 1 <=> Len(initTasks) - Len(tasks) = Len(initTasks)

\* C4: a finish(task) with a task that is not tracked fails with ValueError
\* and changes neither the tracked collection nor the callback count.
C4_FinishUntrackedFails ==
    [][\A t \in Tasks :
         (constructed /\ t \notin Range(tasks)
            /\ poolOp'.op = "finish" /\ poolOp'.task = t)
         => /\ poolOp'.res = "ValueError"
            /\ tasks' = tasks
            /\ called' = called]_vars

\* C4: a task already finished is finished again while another one is tracked
C4_Witness ==
    /\ poolOp.op = "finish" /\ poolOp.res = "ValueError"
    /\ poolOp.task \in Range(initTasks)
    /\ tasks # <<>>
    /\ called = 0

====
